---- MODULE Spec2Model ----
(***************************************************************************)
(* Terminal Snake (src/main.cpp): the SnakeGame main loop dispatching to   *)
(* the Menu, Info and Game screens, and the Snake body model.              *)
(*                                                                         *)
(* One step of the model is one iteration of SnakeGame::render's loop:     *)
(* getch() returns ERR and the active screen renders, or it returns a key  *)
(* and the active screen's input_handler runs.  Drawing calls (mvprintw,   *)
(* clear, box, refresh) and Screen::_was_cleaned only affect the display   *)
(* and are left out.  The wall clock is an input: a Game render step gets  *)
(* the number of milliseconds `now - _previous_render` as a parameter.     *)
(***************************************************************************)
EXTENDS Integers, Sequences, FiniteSets

\* ------------------------------------------------------------------ bounds
\* Terminal size captured by getmaxyx (columns, rows).
Width == 11
Height == 11
\* Longest body explored: a tick that would append a segment beyond it is not taken.
MaxLen == 3
\* Highest score explored: a tick that would eat beyond it is not taken.
MaxScore == 27
\* How many cells beyond the rectangle [0,Width] x [0,Height] a head may be
\* and still be moved by a tick.
MaxOut == 0
\* How many cells away from both the start row and the start column a head is
\* followed: a tick that would take it further is not taken.
MaxStray == 0

\* ------------------------------------------------------------ program constants
USHORT == 65536
InitX == 10
InitY == 10
BaseSpeed == 150
SpeedFloor == 20
SpeedStep == 5
MenuSize == 3
LastOption == MenuSize - 1

VARIABLES
    status,          \* SnakeGame::_status
    current_option,  \* Menu::_current_option
    game_status,     \* Game::_game_status
    body,            \* Snake::_body_parts, head first, each <<x, y>>
    direction,       \* Snake::_direction
    will_be_grown,   \* Snake::_will_be_grown
    food,            \* Game::_food
    score,           \* Game::_score
    speed            \* Game::_speed

vars == <<status, current_option, game_status, body, direction, will_be_grown,
          food, score, speed>>
gameVars == <<game_status, body, direction, will_be_grown, food, score, speed>>

AppStatus == {"MENU", "GAME", "INFO", "EXIT"}
GameStatus == {"RUN", "PAUSE", "GAME_OVER"}
Direction == {"Up", "Right", "Down", "Left"}
ArrowKeys == {"KEY_UP", "KEY_RIGHT", "KEY_DOWN", "KEY_LEFT"}
\* Key codes getch() may deliver; "ENTER" is '\n'.
Keys == ArrowKeys \cup {"q", "p", "r", "ENTER"}

\* Variant: GAME and INFO declared in the other order.
AppStatusOf_swapped(n) ==
    CASE n = 0 -> "MENU"
      [] n = 1 -> "INFO"
      [] n = 2 -> "GAME"
      [] n = 3 -> "EXIT"

\* static_cast<AppStatus>(n): the enumerators in declaration order.
AppStatusOf(n) ==
    CASE n = 0 -> "MENU"
      [] n = 1 -> "GAME"
      [] n = 2 -> "INFO"
      [] n = 3 -> "EXIT"

\* unsigned short arithmetic
Inc16(v) == (v + 1) % USHORT
Dec16(v) == (v + USHORT - 1) % USHORT

\* ------------------------------------------------- RandomCoordinatesGenerator
\* Variant: the x distribution starts on the border column.
GenXs_wide == {0, Width - 1}

\* The two uniform distributions range over [1, width - 1] and [1, height - 1];
\* the draws explored are the two ends of each range.
GenXs == {1, Width - 1}
GenYs == {1, Height - 1}
GenCells == {<<x, y>> : x \in GenXs, y \in GenYs}

\* ---------------------------------------------------------------------- Snake
getHead(b) == b[1]

BodyCells(b) == {b[i] : i \in 1..Len(b)}

is_part_of_body(b, coords) == \E i \in 1..Len(b) : b[i] = coords

\* Variant: the comparison stops one segment short of the tail.
check_self_abuse_short(b) == \E i \in 2..(Len(b) - 1) : b[i] = b[1]

check_self_abuse(b) == \E i \in 2..Len(b) : b[i] = b[1]

\* Variant: resize(1) left out.
reset_keep(b) == b

reset(b) == SubSeq(b, 1, 1)

\* The head after the switch on _direction.
MoveHead(h, d) ==
    CASE d = "Up"    -> <<h[1], Dec16(h[2])>>
      [] d = "Right" -> <<Inc16(h[1]), h[2]>>
      [] d = "Down"  -> <<h[1], Inc16(h[2])>>
      [] d = "Left"  -> <<Dec16(h[1]), h[2]>>

\* Variant: the shift runs head to tail, so every segment receives the head.
move_body_forward(b, grown, d) ==
    LET last == b[Len(b)]
        shifted == [i \in 1..Len(b) |-> b[1]]
        appended == IF grown THEN Append(shifted, last) ELSE shifted
    IN  [appended EXCEPT ![1] = MoveHead(appended[1], d)]

\* Variant: the saved tail is never appended.
move_body_drop(b, grown, d) ==
    LET shifted == [i \in 1..Len(b) |-> IF i = 1 THEN b[1] ELSE b[i - 1]]
    IN  [shifted EXCEPT ![1] = MoveHead(shifted[1], d)]

\* Snake::move_body: the new _body_parts.
move_body(b, grown, d) ==
    LET last == b[Len(b)]
        shifted == [i \in 1..Len(b) |-> IF i = 1 THEN b[1] ELSE b[i - 1]]
        appended == IF grown THEN Append(shifted, last) ELSE shifted
    IN  [appended EXCEPT ![1] = MoveHead(appended[1], d)]

\* ----------------------------------------------------------------------- Game
\* Variant: the lower borders compared with >= instead of >.
check_collision_loose(h) ==
    ~(h[1] >= 0 /\ h[2] >= 0 /\ h[1] < Width /\ h[2] < Height)

check_collision(h) ==
    ~(h[1] > 0 /\ h[2] > 0 /\ h[1] < Width /\ h[2] < Height)

check_food(f, b) == f = getHead(b)

\* Variant: the first draw is kept without the is_part_of_body loop.
generate_food_first(b) == GenCells

\* Game::generate_food: the coordinates the resampling loop can end with.
generate_food(b) == {c \in GenCells : ~is_part_of_body(b, c)}

\* Variant: the step doubled.
SpeedAfterEat_double(s) ==
    (s + USHORT - (IF s > SpeedFloor THEN 2 * SpeedStep ELSE 0)) % USHORT

\* Variant: no floor test.
SpeedAfterEat_nofloor(s) == (s + USHORT - SpeedStep) % USHORT

\* _speed after `_speed -= (_speed > 20) ? 5 : 0`
SpeedAfterEat(s) == (s + USHORT - (IF s > SpeedFloor THEN SpeedStep ELSE 0)) % USHORT

\* Variant: no reversal guard.
Steer_any(d, blocked, wanted) == wanted

\* The direction after an arrow key: rejected when the snake faces the given one.
Steer(d, blocked, wanted) == IF d # blocked THEN wanted ELSE d

\* Distance of a coordinate value beyond [0, limit], on the unsigned short circle.
OutDist(v, limit) ==
    IF v <= limit THEN 0
    ELSE IF v - limit <= USHORT - v THEN v - limit ELSE USHORT - v

\* The clock readings a Game render step is tried with (milliseconds since
\* _previous_render): none, just below, at and just above the interval.
ElapsedSamples == {0, speed - 1, speed, speed + 1}

\* Exploration limits (see the bounds above).
Gap(a, b) == IF a >= b THEN a - b ELSE b - a
OnCross(h) == Gap(h[1], InitX) <= MaxStray \/ Gap(h[2], InitY) <= MaxStray
Explored(b, moved, grown, eaten) ==
    /\ grown => Len(b) < MaxLen
    /\ eaten => score < MaxScore
    /\ OutDist(getHead(b)[1], Width) <= MaxOut
    /\ OutDist(getHead(b)[2], Height) <= MaxOut
    /\ OnCross(getHead(moved))

Init ==
    /\ status = "MENU"
    /\ current_option = 0
    /\ game_status = "RUN"
    /\ body = << <<InitX, InitY>> >>
    /\ direction = "Right"
    /\ will_be_grown = FALSE
    /\ food \in generate_food(body)
    /\ score = 0
    /\ speed = BaseSpeed

\* -------------------------------------------------------------- Game::render
\* The RUN branch taken with the interval exceeded: one tick.
Tick ==
    LET moved == move_body(body, will_be_grown, direction)
        eaten == check_food(food, moved)
    IN  /\ Explored(body, moved, will_be_grown, eaten)
        /\ body' = moved
        /\ IF eaten
           THEN /\ score' = Inc16(score)
                /\ speed' = SpeedAfterEat(speed)
                /\ will_be_grown' = TRUE
                /\ food' \in generate_food(moved)
           ELSE /\ will_be_grown' = FALSE
                /\ UNCHANGED <<score, speed, food>>
        /\ game_status' = IF check_collision(getHead(moved)) \/ check_self_abuse(moved)
                          THEN "GAME_OVER"
                          ELSE game_status
        /\ UNCHANGED <<status, current_option, direction>>

\* Variant: the interval compared with >= instead of >.
GameRender_atleast(elapsed) ==
    /\ status = "GAME"
    /\ IF game_status = "RUN" /\ elapsed >= speed
       THEN Tick
       ELSE UNCHANGED vars

\* Variant: the interval test is made in every GameStatus.
GameRender_always(elapsed) ==
    /\ status = "GAME"
    /\ IF elapsed > speed
       THEN Tick
       ELSE UNCHANGED vars

GameRender(elapsed) ==
    /\ status = "GAME"
    /\ IF game_status = "RUN" /\ elapsed > speed
       THEN Tick
       ELSE UNCHANGED vars

\* ------------------------------------------------------- Game::input_handler
\* Variant: the reversal guard applies only while the game runs.
GameInput_unguarded(input) ==
    /\ status = "GAME"
    /\ CASE input = "KEY_UP" ->
              /\ direction' = IF game_status = "RUN"
                              THEN Steer(direction, "Down", "Up") ELSE "Up"
              /\ UNCHANGED <<status, game_status, body>>
         [] input = "KEY_RIGHT" ->
              /\ direction' = IF game_status = "RUN"
                              THEN Steer(direction, "Left", "Right") ELSE "Right"
              /\ UNCHANGED <<status, game_status, body>>
         [] input = "KEY_DOWN" ->
              /\ direction' = IF game_status = "RUN"
                              THEN Steer(direction, "Up", "Down") ELSE "Down"
              /\ UNCHANGED <<status, game_status, body>>
         [] input = "KEY_LEFT" ->
              /\ direction' = IF game_status = "RUN"
                              THEN Steer(direction, "Right", "Left") ELSE "Left"
              /\ UNCHANGED <<status, game_status, body>>
         [] input = "q" ->
              /\ status' = "MENU"
              /\ UNCHANGED <<direction, game_status, body>>
         [] input = "p" ->
              /\ game_status' = IF game_status = "PAUSE" THEN "RUN" ELSE "PAUSE"
              /\ UNCHANGED <<status, direction, body>>
         [] input = "r" ->
              /\ body' = reset(body)
              /\ game_status' = "PAUSE"
              /\ UNCHANGED <<status, direction>>
         [] OTHER ->
              UNCHANGED <<status, direction, game_status, body>>
    /\ UNCHANGED <<current_option, will_be_grown, food, score, speed>>

\* Variant: no break after the 'q' case, which falls into the 'p' case.
GameInput_fall(input) ==
    /\ status = "GAME"
    /\ CASE input = "KEY_UP" ->
              /\ direction' = Steer(direction, "Down", "Up")
              /\ UNCHANGED <<status, game_status, body>>
         [] input = "KEY_RIGHT" ->
              /\ direction' = Steer(direction, "Left", "Right")
              /\ UNCHANGED <<status, game_status, body>>
         [] input = "KEY_DOWN" ->
              /\ direction' = Steer(direction, "Up", "Down")
              /\ UNCHANGED <<status, game_status, body>>
         [] input = "KEY_LEFT" ->
              /\ direction' = Steer(direction, "Right", "Left")
              /\ UNCHANGED <<status, game_status, body>>
         [] input = "q" ->
              /\ status' = "MENU"
              /\ game_status' = IF game_status = "PAUSE" THEN "RUN" ELSE "PAUSE"
              /\ UNCHANGED <<direction, body>>
         [] input = "p" ->
              /\ game_status' = IF game_status = "PAUSE" THEN "RUN" ELSE "PAUSE"
              /\ UNCHANGED <<status, direction, body>>
         [] input = "r" ->
              /\ body' = reset(body)
              /\ game_status' = "PAUSE"
              /\ UNCHANGED <<status, direction>>
         [] OTHER ->
              UNCHANGED <<status, direction, game_status, body>>
    /\ UNCHANGED <<current_option, will_be_grown, food, score, speed>>

GameInput(input) ==
    /\ status = "GAME"
    /\ CASE input = "KEY_UP" ->
              /\ direction' = Steer(direction, "Down", "Up")
              /\ UNCHANGED <<status, game_status, body>>
         [] input = "KEY_RIGHT" ->
              /\ direction' = Steer(direction, "Left", "Right")
              /\ UNCHANGED <<status, game_status, body>>
         [] input = "KEY_DOWN" ->
              /\ direction' = Steer(direction, "Up", "Down")
              /\ UNCHANGED <<status, game_status, body>>
         [] input = "KEY_LEFT" ->
              /\ direction' = Steer(direction, "Right", "Left")
              /\ UNCHANGED <<status, game_status, body>>
         [] input = "q" ->
              /\ status' = "MENU"
              /\ UNCHANGED <<direction, game_status, body>>
         [] input = "p" ->
              /\ game_status' = IF game_status = "PAUSE" THEN "RUN" ELSE "PAUSE"
              /\ UNCHANGED <<status, direction, body>>
         [] input = "r" ->
              /\ body' = reset(body)
              /\ game_status' = "PAUSE"
              /\ UNCHANGED <<status, direction>>
         [] OTHER ->
              UNCHANGED <<status, direction, game_status, body>>
    /\ UNCHANGED <<current_option, will_be_grown, food, score, speed>>

\* ---------------------------------------------------------------------- Menu
MenuRender ==
    /\ status = "MENU"
    /\ UNCHANGED vars

\* Variant: the decrement made without the test for 0.
OptionUp_nowrap(i) == Dec16(i)

\* _current_option after KEY_UP and after KEY_DOWN.
OptionUp(i) == IF i # 0 THEN Dec16(i) ELSE LastOption
OptionDown(i) == IF i # LastOption THEN Inc16(i) ELSE 0

MenuInput(input) ==
    /\ status = "MENU"
    /\ CASE input = "KEY_UP" ->
              /\ current_option' = OptionUp(current_option)
              /\ UNCHANGED status
         [] input = "KEY_DOWN" ->
              /\ current_option' = OptionDown(current_option)
              /\ UNCHANGED status
         [] input = "ENTER" ->
              /\ status' = AppStatusOf(current_option + 1)
              /\ UNCHANGED current_option
         [] OTHER ->
              UNCHANGED <<status, current_option>>
    /\ UNCHANGED gameVars

\* ---------------------------------------------------------------------- Info
InfoRender ==
    /\ status = "INFO"
    /\ UNCHANGED vars

InfoInput(input) ==
    /\ status = "INFO"
    /\ status' = IF input = "q" THEN "MENU" ELSE status
    /\ UNCHANGED <<current_option, gameVars>>

\* --------------------------------------------------------- SnakeGame::render
Next ==
    \/ MenuRender
    \/ InfoRender
    \/ \E elapsed \in ElapsedSamples : GameRender(elapsed)
    \/ \E input \in Keys : MenuInput(input)
    \/ \E input \in Keys : InfoInput(input)
    \/ \E input \in Keys : GameInput(input)

Spec == Init /\ [][Next]_vars

TypeOK ==
    /\ status \in AppStatus
    /\ current_option \in 0..LastOption
    /\ game_status \in GameStatus
    /\ direction \in Direction
    /\ will_be_grown \in BOOLEAN
    /\ Len(body) \in 1..MaxLen
    /\ score \in 0..MaxScore

\* ------------------------------------------------------------ steps by name
\* A Game render step that takes the RUN branch with the interval exceeded.
TickStep ==
    \E elapsed \in ElapsedSamples :
        game_status = "RUN" /\ elapsed > speed /\ GameRender(elapsed)

\* A tick after whose movement the head is on the food.
EatStep == TickStep /\ getHead(body') = food

\* A Game render step taken while Paused, whatever the clock reading.
PausedRenderStep ==
    \E elapsed \in ElapsedSamples : game_status = "PAUSE" /\ GameRender(elapsed)

Opposite(d) ==
    CASE d = "Up"    -> "Down"
      [] d = "Right" -> "Left"
      [] d = "Down"  -> "Up"
      [] d = "Left"  -> "Right"

Requested(key) ==
    CASE key = "KEY_UP"    -> "Up"
      [] key = "KEY_RIGHT" -> "Right"
      [] key = "KEY_DOWN"  -> "Down"
      [] key = "KEY_LEFT"  -> "Left"

\* h2 is one cell from h in direction d, in unsigned short coordinates.
OneCell(h, h2, d) ==
    CASE d = "Up"    -> h2[1] = h[1] /\ (h2[2] + 1) % USHORT = h[2]
      [] d = "Right" -> h2[2] = h[2] /\ h2[1] = (h[1] + 1) % USHORT
      [] d = "Down"  -> h2[1] = h[1] /\ h2[2] = (h[2] + 1) % USHORT
      [] d = "Left"  -> h2[2] = h[2] /\ (h2[1] + 1) % USHORT = h[1]

\* Eats that take the interval from the base down to the floor.
EatsToFloor == (BaseSpeed - SpeedFloor) \div SpeedStep

InField(h) == 0 < h[1] /\ h[1] < Width /\ 0 < h[2] /\ h[2] < Height
AtBorder(h) == h[1] = 0 \/ h[1] >= Width \/ h[2] = 0 \/ h[2] >= Height
HeadOnSegment(b) == \E i \in 2..Len(b) : b[i] = b[1]

\* ---------------------------------------------------------------------- C1
\* C1: in every tick each segment other than the head takes the pre-tick
\* position of its predecessor, the head moves one cell in the facing
\* direction (Up: y-1, Right: x+1, Down: y+1, Left: x-1, in the unsigned
\* short arithmetic of the coordinates), and with growth pending the appended
\* segment takes the pre-tick position of the old tail.
C1_TickShiftsBody ==
    [][TickStep =>
        /\ \A i \in 2..Len(body) : body'[i] = body[i - 1]
        /\ OneCell(body[1], body'[1], direction)
        /\ will_be_grown =>
             /\ Len(body') = Len(body) + 1
             /\ body'[Len(body) + 1] = body[Len(body)]
      ]_vars

\* A three-segment snake that has grown twice and turned: the second segment
\* is where the head was, the third where the second was.
C1_Witness ==
    /\ Len(body) = 3
    /\ body[1] = <<InitX, InitY - 1>>
    /\ body[2] = <<InitX, InitY>>
    /\ body[3] = <<InitX - 1, InitY>>

\* ---------------------------------------------------------------------- C2
\* C2: every tick lengthens the body by one if growth was pending and by
\* nothing otherwise, the pending flag is consumed by the movement (after the
\* tick it is set only when this very tick ate), and the body never has fewer
\* than one segment.
C2_LengthAndFlag ==
    /\ [](Len(body) >= 1)
    /\ [][TickStep =>
            /\ Len(body') = Len(body) + (IF will_be_grown THEN 1 ELSE 0)
            /\ will_be_grown' => getHead(body') = food
         ]_vars

\* A snake that has grown to two segments and whose flag is clear again.
C2_Witness == Len(body) = 2 /\ ~will_be_grown /\ score = 1

\* ---------------------------------------------------------------------- C3
\* C3: an arrow key handled by the Game screen that requests the exact
\* opposite of the facing direction leaves the direction unchanged; one that
\* requests any other direction sets the direction to the requested one.
C3_ReversalGuard ==
    [][\A key \in ArrowKeys :
          GameInput(key) =>
             direction' = IF Requested(key) = Opposite(direction)
                          THEN direction
                          ELSE Requested(key)
      ]_vars

\* The snake faces Left on its start cell before any food: it faced Right at
\* construction, so Left was accepted only after a turn to Up or Down.
C3_Witness ==
    /\ status = "GAME"
    /\ direction = "Left"
    /\ body = << <<InitX, InitY>> >>
    /\ score = 0

\* ---------------------------------------------------------------------- C4
\* C4: a tick that leaves the head at x = 0, x >= width, y = 0 or y >= height
\* sets GameStatus to GAME_OVER in that tick; a tick that leaves the head
\* inside the field and on no other segment leaves GameStatus RUN.
C4_BorderCollision ==
    [][TickStep =>
        /\ AtBorder(getHead(body')) => game_status' = "GAME_OVER"
        /\ (InField(getHead(body')) /\ ~HeadOnSegment(body')) => game_status' = "RUN"
      ]_vars

\* Game over with the head on the left border column.
C4_Witness ==
    /\ game_status = "GAME_OVER"
    /\ getHead(body)[1] = 0
    /\ getHead(body)[2] = InitY

\* ---------------------------------------------------------------------- C5
\* C5: a tick after whose movement the head is on another body segment sets
\* GameStatus to GAME_OVER in that tick.
C5_SelfCollision ==
    [][(TickStep /\ HeadOnSegment(body')) => game_status' = "GAME_OVER"]_vars

\* Game over inside the field, the head of a three-segment snake on its tail.
C5_Witness ==
    /\ game_status = "GAME_OVER"
    /\ Len(body) = 3
    /\ InField(getHead(body))
    /\ body[3] = body[1]

\* ---------------------------------------------------------------------- C6
\* C6: right after construction and right after every eat, no body segment
\* has the coordinate of the food just placed, whatever the body length.
C6_FoodOffBody ==
    /\ \A i \in 1..Len(body) : body[i] # food
    /\ [][EatStep => \A i \in 1..Len(body') : body'[i] # food']_vars

\* Food placed after an eat by a three-segment snake that covers a cell the
\* generator can draw.
C6_Witness ==
    /\ Len(body) = 3
    /\ will_be_grown
    /\ getHead(body) \in GenCells
    /\ food \notin BodyCells(body)

\* ---------------------------------------------------------------------- C7
\* C7: a tick whose head lands on the food adds one to the score, takes 5 off
\* the speed interval unless it is at the floor 20, sets the pending-growth
\* flag and places new food, and the next tick lengthens the body by one; a
\* tick whose head is not on the food leaves score, speed and food unchanged.
C7_EatEffects ==
    [][TickStep =>
        /\ (getHead(body') = food) =>
             /\ score' = score + 1
             /\ speed' = IF speed = SpeedFloor THEN speed ELSE speed - SpeedStep
             /\ will_be_grown'
             /\ food' # food
             /\ food' \in GenCells
        /\ (getHead(body') # food) => UNCHANGED <<score, speed, food>>
        /\ will_be_grown => Len(body') = Len(body) + 1
      ]_vars

\* The food just eaten while the interval was already at the floor.
C7_Witness == score = EatsToFloor + 1 /\ speed = SpeedFloor /\ will_be_grown

\* ---------------------------------------------------------------------- C8
\* C8: the speed interval is always between the floor 20 and the base 150,
\* never increases, and changes only by a decrease of exactly 5 in a tick
\* that eats food.
C8_SpeedRange ==
    /\ [](SpeedFloor <= speed /\ speed <= BaseSpeed)
    /\ [][speed' # speed => (speed' = speed - SpeedStep /\ EatStep)]_vars

\* The floor reached, one more food eaten at the floor, and the snake grown
\* by the tick after it.
C8_Witness == speed = SpeedFloor /\ score = EatsToFloor + 1 /\ ~will_be_grown

\* ---------------------------------------------------------------------- C9
\* C9: the pause key toggles GameStatus between RUN and PAUSE and changes
\* nothing else, and a render step while Paused changes nothing whatever the
\* elapsed time; so after pause key, any number of render steps, pause key,
\* the body, direction, food, score and speed are what they were.
C9_PauseFreezes ==
    [][/\ (GameInput("p") /\ game_status \in {"RUN", "PAUSE"}) =>
            /\ game_status' = IF game_status = "RUN" THEN "PAUSE" ELSE "RUN"
            /\ UNCHANGED <<body, direction, will_be_grown, food, score, speed>>
       /\ PausedRenderStep => UNCHANGED vars
      ]_vars

\* Paused by the pause key in mid-game: a restart would have left one segment,
\* and a game over would have the head on a border or on the body.
C9_Witness ==
    /\ status = "GAME"
    /\ game_status = "PAUSE"
    /\ Len(body) = 3
    /\ InField(getHead(body))
    /\ ~HeadOnSegment(body)

\* --------------------------------------------------------------------- C10
\* C10: the restart key handled by the Game screen in any GameStatus sets
\* GameStatus to PAUSE, truncates the body to the segment that was the head,
\* and leaves the facing direction, the food, the score and the speed
\* unchanged.
C10_Restart ==
    [][GameInput("r") =>
        /\ game_status' = "PAUSE"
        /\ body' = << body[1] >>
        /\ UNCHANGED <<direction, food, score, speed>>
      ]_vars

\* One segment on the top border with two foods eaten: only a restart shortens
\* the body, and it left the head where it was, Paused, the score kept.
C10_Witness ==
    /\ game_status = "PAUSE"
    /\ body = << <<InitX, 0>> >>
    /\ score = 2
    /\ direction = "Up"

\* --------------------------------------------------------------------- C11
\* C11: after the restart key is handled by the Game screen the snake has one
\* segment, at the start position (10,10), and faces the start direction
\* Right, whatever its position and direction were before.
C11_RestartAtStart ==
    [][GameInput("r") =>
        /\ body' = << <<InitX, InitY>> >>
        /\ direction' = "Right"
      ]_vars

\* --------------------------------------------------------------------- C12
\* The screen the confirm key leads to from the highlighted index.
Target(i) ==
    CASE i = 0 -> "GAME"
      [] i = 1 -> "INFO"
      [] i = 2 -> "EXIT"

\* A render step of whichever screen is active.
RenderStep ==
    \/ MenuRender
    \/ InfoRender
    \/ \E elapsed \in ElapsedSamples : GameRender(elapsed)

\* C12: AppStatus starts at MENU; no render step changes it; it changes only
\* by the confirm key in the Menu (index 0, 1, 2 to GAME, INFO, EXIT), the
\* quit key in the Game (to MENU) and the quit key in Info (to MENU); and no
\* step is taken once it is EXIT.
C12_AppStatusTransitions ==
    /\ status = "MENU"
    /\ [][/\ status # "EXIT"
          /\ RenderStep => status' = status
          /\ MenuInput("ENTER") => status' = Target(current_option)
          /\ GameInput("q") => status' = "MENU"
          /\ InfoInput("q") => status' = "MENU"
          /\ status' # status =>
               \/ status = "MENU" /\ MenuInput("ENTER")
               \/ status = "GAME" /\ GameInput("q")
               \/ status = "INFO" /\ InfoInput("q")
         ]_vars

\* The loop left through the Menu's third option after a game was played.
C12_Witness == status = "EXIT" /\ current_option = 2 /\ score = 1

\* --------------------------------------------------------------------- C13
\* C13: the highlighted index is always 0, 1 or 2; KEY_DOWN maps i to
\* (i+1) mod 3 and KEY_UP maps i to (i-1) mod 3; three presses of the same
\* key, and KEY_UP followed by KEY_DOWN, give back the index; no other key
\* and no render step changes it.
C13_MenuIndex ==
    /\ [](/\ current_option \in {0, 1, 2}
          /\ OptionDown(OptionDown(OptionDown(current_option))) = current_option
          /\ OptionUp(OptionUp(OptionUp(current_option))) = current_option
          /\ OptionDown(OptionUp(current_option)) = current_option)
    /\ [][/\ MenuInput("KEY_DOWN") => current_option' = (current_option + 1) % MenuSize
          /\ MenuInput("KEY_UP") => current_option' = (current_option + MenuSize - 1) % MenuSize
          /\ current_option' # current_option =>
               MenuInput("KEY_DOWN") \/ MenuInput("KEY_UP")
         ]_vars

\* The last option highlighted in the Menu: KEY_UP wrapped from 0, or
\* KEY_DOWN was pressed twice.
C13_Witness == status = "MENU" /\ current_option = 2

\* --------------------------------------------------------------------- C14
\* C14: no step taken while AppStatus is MENU or INFO changes the Game
\* screen's GameStatus, body, direction, pending-growth flag, food, score or
\* speed, and neither does the quit key that leaves the Game; so the Game is
\* found on re-entry as the quit key left it.
C14_GamePersists ==
    [][/\ status \in {"MENU", "INFO"} => UNCHANGED gameVars
       /\ GameInput("q") => UNCHANGED gameVars
      ]_vars

\* The Info screen visited with a game in progress left behind: Paused,
\* three segments, two foods eaten.
C14_Witness ==
    /\ status = "INFO"
    /\ game_status = "PAUSE"
    /\ Len(body) = 3
    /\ score = 2

\* --------------------------------------------------------------------- C15
\* A key handled by whichever screen is active.
InputStep ==
    \E input \in Keys : MenuInput(input) \/ InfoInput(input) \/ GameInput(input)

\* C15: a Game render step moves the snake exactly when GameStatus is RUN and
\* the elapsed time is strictly greater than the speed interval; every other
\* Game render step (RUN with the elapsed time at or below the interval,
\* PAUSE, GAME_OVER) changes nothing; and no step that changes the state is
\* both a render step and an input-handling step.
C15_TickGate ==
    [][/\ \A elapsed \in ElapsedSamples :
            GameRender(elapsed) =>
               IF game_status = "RUN" /\ elapsed > speed
               THEN getHead(body') # getHead(body)
               ELSE UNCHANGED vars
       /\ ~(RenderStep /\ InputStep)
      ]_vars

\* Running after one tick upwards from the start cell.
C15_Witness ==
    /\ status = "GAME"
    /\ game_status = "RUN"
    /\ body = << <<InitX, InitY - 1>> >>
    /\ score = 0

\* --------------------------------------------------------------------- C16
\* C16: coordinate arithmetic never wraps around: no tick decrements a head
\* x coordinate that is 0 (facing Left) or a head y coordinate that is 0
\* (facing Up), so no coordinate underflows to 65535.
C16_NoUnderflow ==
    [][TickStep =>
        /\ ~(direction = "Left" /\ getHead(body)[1] = 0)
        /\ ~(direction = "Up" /\ getHead(body)[2] = 0)
      ]_vars

\* --------------------------------------------------------------------- C17
\* C17 as stated: an arrow key handled while GameStatus is PAUSE or GAME_OVER
\* leaves the facing direction, and so the direction of the first tick after
\* the game runs again, as it was when the game stopped running.
C17_ArrowsIgnoredWhenStopped ==
    [][\A key \in ArrowKeys :
          (game_status # "RUN" /\ GameInput(key)) => direction' = direction
      ]_vars

\* C17 as amended: an arrow key handled while GameStatus is PAUSE or
\* GAME_OVER moves nothing (GameStatus, body, pending-growth flag, food,
\* score and speed are unchanged) but sets the facing direction under the
\* same reversal guard as while running, and the first tick after the game
\* runs again moves the head in the direction so set.
C17_ArrowsSteerWhenStopped ==
    [][/\ \A key \in ArrowKeys :
            (game_status # "RUN" /\ GameInput(key)) =>
               /\ direction' = IF Requested(key) = Opposite(direction)
                               THEN direction
                               ELSE Requested(key)
               /\ UNCHANGED <<status, game_status, body, will_be_grown,
                              food, score, speed>>
       /\ TickStep => OneCell(body[1], body'[1], direction) /\ direction' = direction
       /\ GameInput("p") => direction' = direction
      ]_vars

\* Game over on the left border, which only a tick facing Left reaches, and
\* the snake facing Up: the arrow key was handled after the game stopped.
C17_Witness ==
    /\ game_status = "GAME_OVER"
    /\ getHead(body) = <<0, InitY>>
    /\ direction = "Up"

\* --------------------------------------------------------------------- C18
\* C18: once GameStatus is GAME_OVER it stays GAME_OVER until the restart key
\* is handled: a step that takes GameStatus out of GAME_OVER is the handling
\* of 'r', so no tick moves the snake after a game over without a restart.
C18_GameOverUntilRestart ==
    [][(game_status = "GAME_OVER" /\ game_status' # "GAME_OVER") =>
          GameInput("r")
      ]_vars

\* --------------------------------------------------------------------- C19
\* C19: between two consecutive ticks with no restart in between the head
\* never turns by 180 degrees, however many arrow keys are handled between
\* them; for a snake of three or more segments, whose second segment is the
\* cell the head left at the previous tick, this means that no tick moves the
\* head back onto the segment behind it.
C19_NoStraightBack ==
    [][(TickStep /\ Len(body) >= 3) => body'[1] # body[2]]_vars

\* --------------------------------------------------------------------- C20
\* C20: in every reachable state the food lies in 1..width-1 by 1..height-1
\* and on no body segment; consequently a tick that eats leaves GameStatus
\* RUN: no single tick both eats and ends the game.
C20_FoodInFieldOffBody ==
    /\ [](/\ food[1] >= 1 /\ food[1] <= Width - 1
          /\ food[2] >= 1 /\ food[2] <= Height - 1
          /\ ~is_part_of_body(body, food))
    /\ [][EatStep => game_status' = "RUN"]_vars

\* A tick has just eaten on the column next to the left border with a snake
\* of three segments, and the game still runs.
C20_Witness ==
    /\ game_status = "RUN"
    /\ will_be_grown
    /\ getHead(body) = <<1, InitY>>
    /\ Len(body) = 3
    /\ score >= 3
====
